---- MODULE Spec2Model ----
(***************************************************************************)
(* Model of blobnom's RESP2 command-decoding layer (src/redis/protocol.rs):*)
(* the frame decoder parse_resp_with_remaining, the command parser         *)
(* parse_command and the frame encoder serialize_frame, driven by a        *)
(* connection that buffers the bytes of a client's requests.               *)
(*                                                                         *)
(* Bytes are naturals 0..255, byte strings and texts are sequences (a text *)
(* is a sequence of Unicode code points, as a Rust String is).             *)
(***************************************************************************)
EXTENDS Integers, Sequences, FiniteSets, TLC

VARIABLES
    sent,     \* the frames the client pipelines on the connection, in order
    origin,   \* the command each sent frame was built from (NoCommand if none)
    junk,     \* bytes the client writes after its frames (empty if well-behaved)
    wire,     \* bytes written by the client and not yet read by the server
    buf,      \* the connection's buffer: bytes read and not yet consumed
    last,     \* result of parse_resp_with_remaining on the buffer as it is now
              \* (its remainder borrows the buffer), NoCall after a read
    decoded,  \* per decoded frame, in order: the value and parse_command's
              \* result for it
    status,   \* "open" | "closed" (closed after a decoder-level Invalid)
    frame,    \* the value handed to parse_command (parser specification)
    result    \* parse_command(frame), or NotParsed before the call

vars == <<sent, origin, junk, wire, buf, last, decoded, status, frame, result>>

----------------------------------------------------------------------------
(* Byte-string helpers                                                      *)

CRLF == <<13, 10>>

Drop(s, n) == SubSeq(s, n + 1, Len(s))

Take(s, n) == SubSeq(s, 1, n)

RECURSIVE Concat(_)
Concat(ss) == IF ss = <<>> THEN <<>> ELSE Head(ss) \o Concat(Tail(ss))

\* All sequences over S of length 0..n.
RECURSIVE SeqsUpTo(_, _)
SeqsUpTo(S, n) ==
    IF n = 0 THEN {<<>>}
    ELSE LET shorter == SeqsUpTo(S, n - 1)
         IN  shorter \cup {Append(s, x) : s \in {t \in shorter : Len(t) = n - 1}, x \in S}

\* Decimal formatting of an integer, as the encoder writes counts, lengths
\* and Integer payloads.
RECURSIVE Digits(_)
Digits(n) == IF n < 10 THEN <<48 + n>> ELSE Digits(n \div 10) \o <<48 + (n % 10)>>

ToDecimal(n) == IF n < 0 THEN <<45>> \o Digits(0 - n) ELSE Digits(n)

\* Rust's str::parse::<i64>/<isize>: an optional sign, then one or more ASCII
\* digits, within the 64-bit range.
IsDigit(b) == b >= 48 /\ b <= 57

RECURSIVE DigitsValue(_, _)
DigitsValue(s, acc) ==
    IF s = <<>> THEN acc ELSE DigitsValue(Tail(s), acc * 10 + (Head(s) - 48))

ParseInt(s) ==
    LET signed == s # <<>> /\ Head(s) \in {43, 45}
        ds     == IF signed THEN Tail(s) ELSE s
        wellFormed == ds # <<>> /\ Len(ds) <= 18 /\ \A i \in DOMAIN ds : IsDigit(ds[i])
        mag    == IF wellFormed THEN DigitsValue(ds, 0) ELSE 0
    IN  [ok |-> wellFormed,
         n  |-> IF signed /\ Head(s) = 45 THEN 0 - mag ELSE mag]

----------------------------------------------------------------------------
(* UTF-8: String::from_utf8_lossy, str::as_bytes, str::to_uppercase         *)

IsCont(b) == b >= 128 /\ b <= 191

\* One decoding step at position i of bytes s: the code point (or -1 for a
\* maximal invalid subsequence) and the number of bytes it spans.  Covers the
\* one-, two- and three-byte forms; a four-byte lead is outside ByteAlphabet.
Utf8Step(s, i) ==
    LET b0 == s[i]
        has1 == i + 1 <= Len(s)
        has2 == i + 2 <= Len(s)
    IN  IF b0 < 128 THEN [cp |-> b0, w |-> 1]
        ELSE IF b0 >= 194 /\ b0 <= 223 THEN
            IF has1 /\ IsCont(s[i + 1])
            THEN [cp |-> (b0 - 192) * 64 + (s[i + 1] - 128), w |-> 2]
            ELSE [cp |-> -1, w |-> 1]
        ELSE IF b0 >= 224 /\ b0 <= 239 THEN
            LET lo == IF b0 = 224 THEN 160 ELSE 128
                hi == IF b0 = 237 THEN 159 ELSE 191
                second == has1 /\ s[i + 1] >= lo /\ s[i + 1] <= hi
            IN  IF ~second THEN [cp |-> -1, w |-> 1]
                ELSE IF has2 /\ IsCont(s[i + 2])
                THEN [cp |-> (b0 - 224) * 4096 + (s[i + 1] - 128) * 64 + (s[i + 2] - 128),
                      w |-> 3]
                ELSE [cp |-> -1, w |-> 2]
        ELSE [cp |-> -1, w |-> 1]

RECURSIVE Utf8Decode(_, _)
Utf8Decode(s, i) ==
    IF i > Len(s) THEN <<>>
    ELSE LET st == Utf8Step(s, i) IN <<st.cp>> \o Utf8Decode(s, i + st.w)

\* std::str::from_utf8(...).is_ok()
IsValidUtf8(s) == \A k \in DOMAIN Utf8Decode(s, 1) : Utf8Decode(s, 1)[k] # -1

\* String::from_utf8_lossy: every maximal invalid subsequence becomes U+FFFD.
FromUtf8Lossy(s) ==
    LET d == Utf8Decode(s, 1)
    IN  [k \in DOMAIN d |-> IF d[k] = -1 THEN 65533 ELSE d[k]]

\* str::as_bytes of a text of code points below U+10000.
Utf8Char(cp) ==
    IF cp < 128 THEN <<cp>>
    ELSE IF cp < 2048 THEN <<192 + (cp \div 64), 128 + (cp % 64)>>
    ELSE <<224 + (cp \div 4096), 128 + ((cp \div 64) % 64), 128 + (cp % 64)>>

RECURSIVE Utf8Encode(_)
Utf8Encode(t) == IF t = <<>> THEN <<>> ELSE Utf8Char(Head(t)) \o Utf8Encode(Tail(t))

\* char::to_uppercase for U+0000..U+00FF, U+0131 and U+017F: a-z and the
\* Latin-1 lower-case letters; sharp s becomes SS, y-diaeresis U+0178, the micro
\* sign U+039C, dotless i becomes I and long s becomes S.
UpperChar(cp) ==
    IF cp >= 97 /\ cp <= 122 THEN <<cp - 32>>
    ELSE IF cp >= 224 /\ cp <= 254 /\ cp # 247 THEN <<cp - 32>>
    ELSE IF cp = 223 THEN <<83, 83>>
    ELSE IF cp = 255 THEN <<376>>
    ELSE IF cp = 181 THEN <<924>>
    ELSE IF cp = 305 THEN <<73>>
    ELSE IF cp = 383 THEN <<83>>
    ELSE <<cp>>

\* str::to_uppercase
RECURSIVE ToUppercase(_)
ToUppercase(t) == IF t = <<>> THEN <<>> ELSE UpperChar(Head(t)) \o ToUppercase(Tail(t))

----------------------------------------------------------------------------
(* RespValue = BytesFrame                                                   *)

SimpleString(b) == [t |-> "SimpleString", b |-> b, n |-> 0, a |-> <<>>]
Error(b)        == [t |-> "Error", b |-> b, n |-> 0, a |-> <<>>]
Integer(n)      == [t |-> "Integer", b |-> <<>>, n |-> n, a |-> <<>>]
BulkString(b)   == [t |-> "BulkString", b |-> b, n |-> 0, a |-> <<>>]
Null            == [t |-> "Null", b |-> <<>>, n |-> 0, a |-> <<>>]
Array(a)        == [t |-> "Array", b |-> <<>>, n |-> 0, a |-> a]

----------------------------------------------------------------------------
(* Frame encoder                                                            *)

\* redis_protocol::resp2::encode::extend_encode(buf, frame, int_as_bulkstring):
\* the RESP2 wire forms.
RECURSIVE ExtendEncode(_, _)
ExtendEncode(f, intAsBulk) ==
    CASE f.t = "SimpleString" -> <<43>> \o f.b \o CRLF
      [] f.t = "Error"        -> <<45>> \o f.b \o CRLF
      [] f.t = "Integer"      ->
            IF intAsBulk
            THEN <<36>> \o ToDecimal(Len(ToDecimal(f.n))) \o CRLF \o ToDecimal(f.n) \o CRLF
            ELSE <<58>> \o ToDecimal(f.n) \o CRLF
      [] f.t = "BulkString"   -> <<36>> \o ToDecimal(Len(f.b)) \o CRLF \o f.b \o CRLF
      [] f.t = "Null"         -> <<36, 45, 49>> \o CRLF
      [] f.t = "Array"        ->
            <<42>> \o ToDecimal(Len(f.a)) \o CRLF
                   \o Concat([i \in DOMAIN f.a |-> ExtendEncode(f.a[i], intAsBulk)])

\* Fault: integers encoded as Bulk Strings (int_as_bulkstring set).
serialize_frame_int_as_bulk(f) == ExtendEncode(f, TRUE)

serialize_frame(f) == ExtendEncode(f, FALSE)

----------------------------------------------------------------------------
(* Frame decoder                                                            *)

DecOk(v, next) == [k |-> "ok", val |-> v, next |-> next]
DecIncomplete  == [k |-> "incomplete", val |-> Null, next |-> 0]
DecError       == [k |-> "error", val |-> Null, next |-> 0]

\* Index of the first CRLF at or after pos, or 0 when the buffer holds none.
RECURSIVE FindCrlf(_, _)
FindCrlf(s, pos) ==
    IF pos + 1 > Len(s) THEN 0
    ELSE IF s[pos] = 13 /\ s[pos + 1] = 10 THEN pos
    ELSE FindCrlf(s, pos + 1)

\* The type tags + - : $ *
TypeTags == {43, 45, 58, 36, 42}

\* One frame starting at index pos (1-based); next is the index after it.
\* Streaming: running out of bytes is "incomplete", a malformed byte that was
\* read is "error", whichever comes first in reading order.
RECURSIVE DecodeAt(_, _)
RECURSIVE DecodeLine(_, _, _, _)
RECURSIVE DecodeBody(_, _, _, _)
RECURSIVE DecodeCounted(_, _, _, _)
RECURSIVE DecodeElems(_, _, _, _)
RECURSIVE DecodeRest(_, _, _, _)

\* The elements of an Array: count more frames from pos on.
DecodeElems(s, pos, count, acc) ==
    IF count = 0 THEN DecOk(Array(acc), pos)
    ELSE DecodeRest(s, count, acc, DecodeAt(s, pos))

\* e is the element just decoded: the first failure ends the Array.
DecodeRest(s, count, acc, e) ==
    IF e.k # "ok" THEN e
    ELSE DecodeElems(s, e.next, count - 1, Append(acc, e.val))

\* num is the parsed length prefix or Integer payload, body the index after
\* the line's CRLF.  The two bytes after a Bulk String's payload are skipped.
DecodeCounted(s, tag, num, body) ==
    IF ~num.ok THEN DecError
    ELSE IF tag = 58 THEN DecOk(Integer(num.n), body)
    ELSE IF num.n = -1 THEN DecOk(Null, body)
    ELSE IF num.n < 0 THEN DecError
    ELSE IF tag = 42 THEN DecodeElems(s, body, num.n, <<>>)
    ELSE IF body + num.n + 1 > Len(s) THEN DecIncomplete
    ELSE DecOk(BulkString(SubSeq(s, body, body + num.n - 1)), body + num.n + 2)

\* line is the text between the type tag and the first CRLF.
DecodeBody(s, tag, line, body) ==
    IF tag = 43 THEN DecOk(SimpleString(line), body)
    ELSE IF ~IsValidUtf8(line) THEN DecError
    ELSE IF tag = 45 THEN DecOk(Error(line), body)
    ELSE DecodeCounted(s, tag, ParseInt(line), body)

\* eol is the index of the line's CRLF, 0 when it has not arrived.
DecodeLine(s, tag, start, eol) ==
    IF eol = 0 THEN DecIncomplete
    ELSE DecodeBody(s, tag, SubSeq(s, start, eol - 1), eol + 2)

DecodeAt(s, pos) ==
    IF pos > Len(s) THEN DecIncomplete
    ELSE IF s[pos] \notin TypeTags THEN DecError
    ELSE DecodeLine(s, s[pos], pos + 1, FindCrlf(s, pos + 1))

\* redis_protocol::resp2::decode::decode_bytes_mut: Ok(Some((frame, consumed, _))),
\* Ok(None) or Err(e).
DecodeResult(r) ==
    CASE r.k = "ok"         -> [k |-> "some", frame |-> r.val, consumed |-> r.next - 1]
      [] r.k = "incomplete" -> [k |-> "none", frame |-> Null, consumed |-> 0]
      [] r.k = "error"      -> [k |-> "err", frame |-> Null, consumed |-> 0]

decode_bytes_mut(s) == DecodeResult(DecodeAt(s, 1))

\* Fault: Ok(None) reported as Invalid instead of Incomplete.
MatchDecoded_none_invalid(input, d) ==
    CASE d.k = "some" ->
            IF d.consumed > Len(input)
            THEN [k |-> "Panic", frame |-> Null, remaining |-> <<>>]
            ELSE [k |-> "Ok", frame |-> d.frame, remaining |-> Drop(input, d.consumed)]
      [] d.k = "none" -> [k |-> "Invalid", frame |-> Null, remaining |-> <<>>]
      [] d.k = "err"  -> [k |-> "Invalid", frame |-> Null, remaining |-> <<>>]

\* Fault: the remainder sliced one byte late, &input[consumed + 1..].
MatchDecoded_off_by_one(input, d) ==
    CASE d.k = "some" ->
            IF d.consumed + 1 > Len(input)
            THEN [k |-> "Panic", frame |-> Null, remaining |-> <<>>]
            ELSE [k |-> "Ok", frame |-> d.frame,
                  remaining |-> Drop(input, d.consumed + 1)]
      [] d.k = "none" -> [k |-> "Incomplete", frame |-> Null, remaining |-> <<>>]
      [] d.k = "err"  -> [k |-> "Invalid", frame |-> Null, remaining |-> <<>>]

\* The match on decode_bytes_mut's result d.  &input[consumed..] panics when
\* consumed exceeds the input's length.
MatchDecoded(input, d) ==
    CASE d.k = "some" ->
            IF d.consumed > Len(input)
            THEN [k |-> "Panic", frame |-> Null, remaining |-> <<>>]
            ELSE [k |-> "Ok", frame |-> d.frame, remaining |-> Drop(input, d.consumed)]
      [] d.k = "none" -> [k |-> "Incomplete", frame |-> Null, remaining |-> <<>>]
      [] d.k = "err"  -> [k |-> "Invalid", frame |-> Null, remaining |-> <<>>]

parse_resp_with_remaining(input) == MatchDecoded(input, decode_bytes_mut(input))

----------------------------------------------------------------------------
(* RedisCommand and ParseError                                              *)

Cmd(c, s, v, some) == [c |-> c, s |-> s, v |-> v, some |-> some]

Get(key)        == Cmd("Get", key, <<>>, TRUE)
Set(key, value) == Cmd("Set", key, value, TRUE)
Del(key)        == Cmd("Del", key, <<>>, TRUE)
Exists(key)     == Cmd("Exists", key, <<>>, TRUE)
PingNone        == Cmd("Ping", <<>>, <<>>, FALSE)
PingSome(m)     == Cmd("Ping", m, <<>>, TRUE)
InfoNone        == Cmd("Info", <<>>, <<>>, FALSE)
InfoSome(sec)   == Cmd("Info", sec, <<>>, TRUE)
Command         == Cmd("Command", <<>>, <<>>, FALSE)
Quit            == Cmd("Quit", <<>>, <<>>, FALSE)
Unknown(name)   == Cmd("Unknown", name, <<>>, TRUE)
NoCommand       == Cmd("None", <<>>, <<>>, FALSE)

POk(cmd)      == [k |-> "Ok", cmd |-> cmd, msg |-> ""]
PInvalid(msg) == [k |-> "Invalid", cmd |-> NoCommand, msg |-> msg]
NotParsed     == [k |-> "NotParsed", cmd |-> NoCommand, msg |-> ""]

\* The command names of the dispatch table, as texts.
NameGET     == <<71, 69, 84>>
NameSET     == <<83, 69, 84>>
NameDEL     == <<68, 69, 76>>
NameEXISTS  == <<69, 88, 73, 83, 84, 83>>
NamePING    == <<80, 73, 78, 71>>
NameINFO    == <<73, 78, 70, 79>>
NameCOMMAND == <<67, 79, 77, 77, 65, 78, 68>>
NameQUIT    == <<81, 85, 73, 84>>

----------------------------------------------------------------------------
(* Command parser                                                           *)

IsStringLike(v) == v.t \in {"BulkString", "SimpleString"}

\* extract_string: Ok(text) or Err(Invalid(msg)).
extract_string(value) ==
    CASE value.t = "BulkString"   -> [ok |-> TRUE, s |-> FromUtf8Lossy(value.b), msg |-> ""]
      [] value.t = "SimpleString" -> [ok |-> TRUE, s |-> FromUtf8Lossy(value.b), msg |-> ""]
      [] value.t = "Null" ->
            [ok |-> FALSE, s |-> <<>>, msg |-> "Cannot use null as string argument"]
      [] OTHER -> [ok |-> FALSE, s |-> <<>>, msg |-> "Expected string argument"]

\* Fault: the value taken through the lossy text conversion.
extract_bytes_lossy(value) ==
    CASE value.t = "BulkString" ->
            [ok |-> TRUE, v |-> Utf8Encode(FromUtf8Lossy(value.b)), msg |-> ""]
      [] value.t = "SimpleString" ->
            [ok |-> TRUE, v |-> Utf8Encode(FromUtf8Lossy(value.b)), msg |-> ""]
      [] value.t = "Null" ->
            [ok |-> FALSE, v |-> <<>>, msg |-> "Cannot use null as byte argument"]
      [] OTHER -> [ok |-> FALSE, v |-> <<>>, msg |-> "Expected string/bytes argument"]

\* Fault: Null taken as the empty value.
extract_bytes_null_empty(value) ==
    CASE value.t = "BulkString"   -> [ok |-> TRUE, v |-> value.b, msg |-> ""]
      [] value.t = "SimpleString" -> [ok |-> TRUE, v |-> value.b, msg |-> ""]
      [] value.t = "Null"         -> [ok |-> TRUE, v |-> <<>>, msg |-> ""]
      [] OTHER -> [ok |-> FALSE, v |-> <<>>, msg |-> "Expected string/bytes argument"]

\* extract_bytes: Ok(bytes) or Err(Invalid(msg)).
extract_bytes(value) ==
    CASE value.t = "BulkString"   -> [ok |-> TRUE, v |-> value.b, msg |-> ""]
      [] value.t = "SimpleString" -> [ok |-> TRUE, v |-> value.b, msg |-> ""]
      [] value.t = "Null" ->
            [ok |-> FALSE, v |-> <<>>, msg |-> "Cannot use null as byte argument"]
      [] OTHER -> [ok |-> FALSE, v |-> <<>>, msg |-> "Expected string/bytes argument"]

\* Fault: a Bulk String name matched without upper-casing.
CommandName_raw_bulk(head) ==
    CASE head.t = "BulkString" -> [ok |-> TRUE, name |-> FromUtf8Lossy(head.b)]
      [] head.t = "SimpleString" ->
            [ok |-> TRUE, name |-> ToUppercase(FromUtf8Lossy(head.b))]
      [] OTHER -> [ok |-> FALSE, name |-> <<>>]

\* The command name taken from elements[0]; ok is FALSE for a head that is
\* not a string.
CommandName(head) ==
    CASE head.t = "BulkString" ->
            [ok |-> TRUE, name |-> ToUppercase(FromUtf8Lossy(head.b))]
      [] head.t = "SimpleString" ->
            [ok |-> TRUE, name |-> ToUppercase(FromUtf8Lossy(head.b))]
      [] OTHER -> [ok |-> FALSE, name |-> <<>>]

\* Fault: GET's arity check only rejects a missing key.
ParseGet_at_least(elements) ==
    IF Len(elements) < 2 THEN PInvalid("GET requires exactly 1 argument")
    ELSE LET key == extract_string(elements[2])
         IN  IF key.ok THEN POk(Get(key.s)) ELSE PInvalid(key.msg)

\* Variant: PING rejecting more than one argument.
ParsePing_strict(elements) ==
    IF Len(elements) > 2 THEN PInvalid("PING accepts at most 1 argument")
    ELSE IF Len(elements) > 1
    THEN LET message == extract_string(elements[2])
         IN  IF message.ok THEN POk(PingSome(message.s)) ELSE PInvalid(message.msg)
    ELSE POk(PingNone)

\* Fault: an unlisted name rejected.
ParseOther_reject(command_name, elements) == PInvalid("Unknown command")

\* The arms of the match on command_name.
ParseGet(elements) ==
    IF Len(elements) # 2 THEN PInvalid("GET requires exactly 1 argument")
    ELSE LET key == extract_string(elements[2])
         IN  IF key.ok THEN POk(Get(key.s)) ELSE PInvalid(key.msg)

ParseSet(elements) ==
    IF Len(elements) # 3 THEN PInvalid("SET requires exactly 2 arguments")
    ELSE LET key   == extract_string(elements[2])
             value == extract_bytes(elements[3])
         IN  IF ~key.ok THEN PInvalid(key.msg)
             ELSE IF ~value.ok THEN PInvalid(value.msg)
             ELSE POk(Set(key.s, value.v))

ParseDel(elements) ==
    IF Len(elements) # 2 THEN PInvalid("DEL requires exactly 1 argument")
    ELSE LET key == extract_string(elements[2])
         IN  IF key.ok THEN POk(Del(key.s)) ELSE PInvalid(key.msg)

ParseExists(elements) ==
    IF Len(elements) # 2 THEN PInvalid("EXISTS requires exactly 1 argument")
    ELSE LET key == extract_string(elements[2])
         IN  IF key.ok THEN POk(Exists(key.s)) ELSE PInvalid(key.msg)

ParsePing(elements) ==
    IF Len(elements) > 1
    THEN LET message == extract_string(elements[2])
         IN  IF message.ok THEN POk(PingSome(message.s)) ELSE PInvalid(message.msg)
    ELSE POk(PingNone)

ParseInfo(elements) ==
    IF Len(elements) > 1
    THEN LET section == extract_string(elements[2])
         IN  IF section.ok THEN POk(InfoSome(section.s)) ELSE PInvalid(section.msg)
    ELSE POk(InfoNone)

ParseCommandCommand(elements) == POk(Command)

ParseQuit(elements) == POk(Quit)

ParseOther(command_name, elements) == POk(Unknown(command_name))

\* parse_command_array; elements is non-empty.
parse_command_array(elements) ==
    LET head == CommandName(elements[1])
    IN  IF ~head.ok THEN PInvalid("Command name must be a string")
        ELSE CASE head.name = NameGET     -> ParseGet(elements)
               [] head.name = NameSET     -> ParseSet(elements)
               [] head.name = NameDEL     -> ParseDel(elements)
               [] head.name = NameEXISTS  -> ParseExists(elements)
               [] head.name = NamePING    -> ParsePing(elements)
               [] head.name = NameINFO    -> ParseInfo(elements)
               [] head.name = NameCOMMAND -> ParseCommandCommand(elements)
               [] head.name = NameQUIT    -> ParseQuit(elements)
               [] OTHER -> ParseOther(head.name, elements)

\* Fault: a top-level string accepted as an inline command.
parse_command_inline(resp) ==
    IF resp.t = "Array" /\ resp.a # <<>> THEN parse_command_array(resp.a)
    ELSE IF resp.t = "Array" THEN PInvalid("Empty command array")
    ELSE IF IsStringLike(resp) THEN parse_command_array(<<resp>>)
    ELSE PInvalid("Commands must be arrays")

parse_command(resp) ==
    IF resp.t = "Array" /\ resp.a # <<>> THEN parse_command_array(resp.a)
    ELSE IF resp.t = "Array" THEN PInvalid("Empty command array")
    ELSE PInvalid("Commands must be arrays")

----------------------------------------------------------------------------
(* Bounded inputs                                                           *)

MaxLen      == 2    \* longest key, message, section and payload
MaxInt      == 11   \* Integer payloads range over -MaxInt..MaxInt
MaxArrayLen == 2    \* longest Array among the encoded values
MaxArgs     == 3    \* most arguments after the command name
MaxPipeline == 2    \* most frames pipelined on one connection
MaxChunk    == 2    \* most bytes one read delivers
MaxJunk     == 4    \* longest adversarial byte string

\* Texts: U+00E9 (two bytes in UTF-8), CR, LF.
TextAlphabet == {233, 13, 10}
TextSet == SeqsUpTo(TextAlphabet, MaxLen)

\* Payload bytes: 0xFF (never valid UTF-8), CR, LF.
ByteAlphabet == {255, 13, 10}
BytesSet == SeqsUpTo(ByteAlphabet, MaxLen)

CommandSet ==
    {Get(k) : k \in TextSet} \cup {Del(k) : k \in TextSet}
        \cup {Exists(k) : k \in TextSet}
        \cup {Set(k, v) : k \in TextSet, v \in BytesSet}
        \cup {PingSome(m) : m \in TextSet} \cup {InfoSome(m) : m \in TextSet}
        \cup {PingNone, InfoNone, Command, Quit}

\* The correctly-shaped Array of Bulk Strings a client sends for a command.
CommandToArray(c) ==
    CASE c.c = "Get"     -> Array(<<BulkString(NameGET), BulkString(Utf8Encode(c.s))>>)
      [] c.c = "Set"     -> Array(<<BulkString(NameSET), BulkString(Utf8Encode(c.s)),
                                    BulkString(c.v)>>)
      [] c.c = "Del"     -> Array(<<BulkString(NameDEL), BulkString(Utf8Encode(c.s))>>)
      [] c.c = "Exists"  -> Array(<<BulkString(NameEXISTS), BulkString(Utf8Encode(c.s))>>)
      [] c.c = "Ping"    -> IF c.some
                            THEN Array(<<BulkString(NamePING), BulkString(Utf8Encode(c.s))>>)
                            ELSE Array(<<BulkString(NamePING)>>)
      [] c.c = "Info"    -> IF c.some
                            THEN Array(<<BulkString(NameINFO), BulkString(Utf8Encode(c.s))>>)
                            ELSE Array(<<BulkString(NameINFO)>>)
      [] c.c = "Command" -> Array(<<BulkString(NameCOMMAND)>>)
      [] c.c = "Quit"    -> Array(<<BulkString(NameQUIT)>>)

ScalarSet ==
    {SimpleString(b) : b \in BytesSet} \cup {BulkString(b) : b \in BytesSet}
        \cup {Error(Utf8Encode(t)) : t \in TextSet}
        \cup {Integer(n) : n \in (0 - MaxInt)..MaxInt}
        \cup {Null}

\* Array elements: one of each kind, and Arrays for nesting.
ElemSet ==
    {SimpleString(<<79, 75>>), Error(<<195, 169>>), Integer(-1), BulkString(CRLF), Null,
     Array(<<>>), Array(<<Null, Integer(10)>>)}

ValueSet == ScalarSet \cup {Array(a) : a \in SeqsUpTo(ElemSet, MaxArrayLen)}

\* Frames of the pipelined sessions: GET k, SET k <CR LF>, PING, +OK and
\* an Array of an Integer and a Null.
PipeFrames ==
    {CommandToArray(Get(<<107>>)), CommandToArray(Set(<<107>>, CRLF)),
     CommandToArray(PingNone), SimpleString(<<79, 75>>), Array(<<Integer(-1), Null>>)}

PipelineSet == SeqsUpTo(PipeFrames, MaxPipeline) \ {<<>>}

\* What a misbehaving client appends to its frames: nothing, an unknown type
\* tag, a truncated Array, a bad length prefix.
TailSet == {<<>>, <<63>>, <<42, 49, 13, 10>>, <<36, 45, 50, 13, 10>>}

\* Arbitrary input over * $ : 1 - CR LF.
JunkAlphabet == {42, 36, 58, 49, 45, 13, 10}
JunkSet == SeqsUpTo(JunkAlphabet, MaxJunk)

\* Heads and arguments of the Arrays handed to parse_command.
LowerByte(b) == IF b >= 65 /\ b <= 90 THEN b + 32 ELSE b
Lower(s) == [i \in DOMAIN s |-> LowerByte(s[i])]
Mixed(s) == [i \in DOMAIN s |-> IF i % 2 = 1 THEN s[i] ELSE LowerByte(s[i])]

KnownNames ==
    {NameGET, NameSET, NameDEL, NameEXISTS, NamePING, NameINFO, NameCOMMAND, NameQUIT}

\* Names outside the dispatch table: FOO, GETX, GE.  HeadSet adds the empty
\* name, 0xFF, U+00E9, "get" 0xFF and long-s "et" (which upper-cases to SET).
OtherNames == {<<70, 79, 79>>, <<71, 69, 84, 88>>, <<71, 69>>}

HeadSet ==
    {BulkString(n) : n \in KnownNames \cup OtherNames}
        \cup {BulkString(Lower(n)) : n \in KnownNames \cup OtherNames}
        \cup {BulkString(Mixed(n)) : n \in KnownNames \cup OtherNames}
        \cup {SimpleString(Lower(n)) : n \in KnownNames \cup OtherNames}
        \cup {BulkString(<<>>), BulkString(<<255>>), BulkString(<<195, 169>>),
              BulkString(<<103, 101, 116, 255>>), BulkString(<<197, 191, 101, 116>>)}
        \cup {Null, Integer(1), Error(NameGET), Array(<<BulkString(NameGET)>>)}

ArgSet ==
    {BulkString(<<255>>), SimpleString(<<107>>), Null, Integer(7), Array(<<>>)}

ParserInputs ==
    {Array(<<h>> \o args) : h \in HeadSet, args \in SeqsUpTo(ArgSet, MaxArgs)}
        \cup {Array(<<>>), Null, Integer(0), Error(NameGET), SimpleString(NameGET),
              BulkString(NameGET), BulkString(NamePING), SimpleString(NameQUIT)}

----------------------------------------------------------------------------
(* The connection: a client writes frames, the server reads them in chunks *)
(* into its buffer and invokes the decoder and the parser.                 *)

NoCall == [k |-> "None", frame |-> Null, remaining |-> <<>>]

Encoded(fs) == Concat([i \in DOMAIN fs |-> serialize_frame(fs[i])])

SessionStart(fs, os, tail) ==
    /\ sent = fs
    /\ origin = os
    /\ junk = tail
    /\ wire = Encoded(fs) \o tail
    /\ buf = <<>>
    /\ last = NoCall
    /\ decoded = <<>>
    /\ status = "open"
    /\ frame = Null
    /\ result = NotParsed

\* One frame per connection: a command's Array, or any value.
Init ==
    \/ \E c \in CommandSet : SessionStart(<<CommandToArray(c)>>, <<c>>, <<>>)
    \/ \E v \in ValueSet : SessionStart(<<v>>, <<NoCommand>>, <<>>)

\* Pipelined frames followed by a tail, or arbitrary bytes alone.
InitPipe ==
    \/ \E fs \in PipelineSet, tail \in TailSet :
          SessionStart(fs, [i \in DOMAIN fs |-> NoCommand], tail)
    \/ \E j \in JunkSet : SessionStart(<<>>, <<>>, j)

\* The server reads the next n bytes into its buffer; the previous result,
\* which borrowed the buffer, is gone.
Receive(n) ==
    /\ status = "open"
    /\ n <= Len(wire)
    /\ buf' = buf \o Take(wire, n)
    /\ wire' = Drop(wire, n)
    /\ last' = NoCall
    /\ UNCHANGED <<sent, origin, junk, decoded, status, frame, result>>

\* The decoder yields a value: the parser runs on it and the buffer advances
\* to the returned remainder.
DecodeOk ==
    /\ status = "open"
    /\ \E r \in {parse_resp_with_remaining(buf)} :
           /\ r.k = "Ok"
           /\ last' = r
           /\ decoded' = Append(decoded, [frame |-> r.frame,
                                          cmd |-> parse_command(r.frame)])
           /\ buf' = r.remaining
    /\ UNCHANGED <<sent, origin, junk, wire, status, frame, result>>

\* The decoder needs more bytes: the buffer is kept as it is.
DecodeIncomplete ==
    /\ status = "open"
    /\ \E r \in {parse_resp_with_remaining(buf)} :
           /\ r.k = "Incomplete"
           /\ last' = r
    /\ UNCHANGED <<sent, origin, junk, wire, buf, decoded, status, frame, result>>

\* The decoder rejects the buffer (or panics on the slice): the connection
\* is dropped.
DecodeInvalid ==
    /\ status = "open"
    /\ \E r \in {parse_resp_with_remaining(buf)} :
           /\ r.k \in {"Invalid", "Panic"}
           /\ last' = r
    /\ status' = "closed"
    /\ UNCHANGED <<sent, origin, junk, wire, buf, decoded, frame, result>>

Next ==
    \/ \E n \in 1..MaxChunk : Receive(n)
    \/ DecodeOk
    \/ DecodeIncomplete
    \/ DecodeInvalid

Spec == Init /\ [][Next]_vars

SpecPipe == InitPipe /\ [][Next]_vars

----------------------------------------------------------------------------
(* The parser alone, on any decoded value.                                  *)

InitParse ==
    /\ frame \in ParserInputs
    /\ result = NotParsed
    /\ sent = <<>>
    /\ origin = <<>>
    /\ junk = <<>>
    /\ wire = <<>>
    /\ buf = <<>>
    /\ last = NoCall
    /\ decoded = <<>>
    /\ status = "closed"

Parse ==
    /\ result = NotParsed
    /\ result' = parse_command(frame)
    /\ UNCHANGED <<sent, origin, junk, wire, buf, last, decoded, status, frame>>

NextParse == Parse

SpecParse == InitParse /\ [][NextParse]_vars

----------------------------------------------------------------------------
(* Properties of the single-frame connection (Spec)                        *)

\* The frame's encoding and the decoder's answer on all of it.
WireOf(v) == serialize_frame(v)
Whole(v)  == parse_resp_with_remaining(WireOf(v))

\* The frame is decoded: the decoder has yielded at least one value.
FirstDecoded == decoded # <<>>

\* C1: for every supported command c, the Array of Bulk Strings built for c,
\* encoded by serialize_frame, decoded by parse_resp_with_remaining and handed
\* to parse_command yields Ok(c), and the decoder's remainder is empty; on the
\* connection, the first decoded frame parses to c with nothing left over.
C1_CommandRoundTrip ==
    \A i \in DOMAIN origin :
        origin[i] # NoCommand =>
            /\ sent[i] = CommandToArray(origin[i])
            /\ Whole(sent[i]).k = "Ok"
            /\ Whole(sent[i]).remaining = <<>>
            /\ parse_command(Whole(sent[i]).frame) = POk(origin[i])
            /\ i \in DOMAIN decoded =>
                  /\ decoded[i].cmd = POk(origin[i])
                  /\ last.k = "Ok" => last.remaining = <<>>

\* A SET whose key holds a two-byte character and LF and whose value holds CR
\* and a byte that is not UTF-8 has come through the pipeline.
C1_Witness ==
    /\ FirstDecoded
    /\ origin = <<Set(<<233, 10>>, <<13, 255>>)>>
    /\ decoded[1].cmd.k = "Ok"

\* The sent frame's encoding is one valid frame: decoding all of it yields a
\* value and leaves nothing.
ValidEncoding == Len(sent) = 1 /\ Whole(sent[1]).k = "Ok" /\ Whole(sent[1]).remaining = <<>>

\* The bytes of the frame read so far.
Delivered == Len(WireOf(sent[1])) - Len(wire)

\* C2: while only a proper prefix of a valid frame's encoding has arrived, the
\* buffer is exactly that prefix (nothing was consumed), the decoder answers
\* Incomplete on it, every call made so far answered Incomplete and no value was
\* produced; once the last byte is there the decoder yields the frame's value.
C2_TruncationIncomplete ==
    ValidEncoding =>
        /\ status = "open"
        /\ wire # <<>> =>
              /\ buf = Take(WireOf(sent[1]), Delivered)
              /\ parse_resp_with_remaining(buf).k = "Incomplete"
              /\ last.k \in {"None", "Incomplete"}
              /\ decoded = <<>>
        /\ (wire = <<>> /\ decoded = <<>>) =>
              /\ buf = WireOf(sent[1])
              /\ parse_resp_with_remaining(buf) =
                    [k |-> "Ok", frame |-> Whole(sent[1]).frame, remaining |-> <<>>]
        /\ FirstDecoded =>
              /\ Len(decoded) = 1
              /\ decoded[1].frame = Whole(sent[1]).frame
              /\ buf = <<>>

\* All but the last byte of a nested Array have arrived and the decoder has
\* just answered Incomplete.
C2_Witness ==
    /\ ValidEncoding
    /\ sent[1].t = "Array"
    /\ Len(sent[1].a) = 2
    /\ Len(wire) = 1
    /\ Len(buf) >= 8
    /\ last.k = "Incomplete"

\* The RESP2 wire form of a value (section 6 of the specification), every
\* Bulk String prefixed by its payload's byte count.
RECURSIVE Resp2WireForm(_)
Resp2WireForm(v) ==
    CASE v.t = "SimpleString" -> <<43>> \o v.b \o <<13, 10>>
      [] v.t = "Error"        -> <<45>> \o v.b \o <<13, 10>>
      [] v.t = "Integer"      -> <<58>> \o ToDecimal(v.n) \o <<13, 10>>
      [] v.t = "BulkString"   -> <<36>> \o ToDecimal(Len(v.b)) \o <<13, 10>> \o v.b \o <<13, 10>>
      [] v.t = "Null"         -> <<36, 45, 49, 13, 10>>
      [] v.t = "Array"        ->
            <<42>> \o ToDecimal(Len(v.a)) \o <<13, 10>>
                   \o Concat([i \in DOMAIN v.a |-> Resp2WireForm(v.a[i])])

\* The value round-trips: its encoding decodes to it with nothing left, and
\* on the connection the first decoded value is the one sent.
RoundTrips(v) ==
    /\ Whole(v) = [k |-> "Ok", frame |-> v, remaining |-> <<>>]
    /\ FirstDecoded => decoded[1].frame = v
    /\ (Len(decoded) = 1 /\ last.k = "Ok") => (last.frame = v /\ last.remaining = <<>>)

\* C10 as stated: every representable value is encoded in its wire form and
\* round-trips through the decoder.
C10_AllValuesRoundTrip ==
    \A i \in DOMAIN sent :
        /\ WireOf(sent[i]) = Resp2WireForm(sent[i])
        /\ RoundTrips(sent[i])

\* A Simple String or Error text, at any depth, holds the terminator CR LF.
RECURSIVE HasCrlfText(_)
HasCrlfText(v) ==
    \/ v.t \in {"SimpleString", "Error"} /\ FindCrlf(v.b, 1) # 0
    \/ v.t = "Array" /\ \E i \in DOMAIN v.a : HasCrlfText(v.a[i])

\* C10 amended: every value is encoded in its wire form, every Bulk String
\* prefixed by its payload's byte count, and it round-trips when no Simple
\* String or Error text in it, at any depth, holds CR LF; Bulk String payloads
\* are unconstrained.
C10_CrlfFreeValuesRoundTrip ==
    \A i \in DOMAIN sent :
        /\ WireOf(sent[i]) = Resp2WireForm(sent[i])
        /\ ~HasCrlfText(sent[i]) => RoundTrips(sent[i])

\* An Array holding a Bulk String with CR LF in it, a nested Array and a
\* negative Integer has been decoded.
C10_Witness ==
    /\ FirstDecoded
    /\ origin = <<NoCommand>>
    /\ sent = <<Array(<<BulkString(<<13, 10>>), Array(<<Null, Integer(10)>>)>>)>>
    /\ decoded[1].frame = sent[1]
    /\ last.k = "Ok"

----------------------------------------------------------------------------
(* Properties of the pipelined connection (SpecPipe)                       *)

Min(a, b) == IF a < b THEN a ELSE b

\* C3: on whatever the buffer holds the slice never goes out of bounds; when
\* the decoder succeeds the consumed length is within the buffer, the consumed
\* prefix followed by the remainder is the buffer, and the prefix alone decodes
\* to the same value; the frames decoded so far are the frames sent, in order,
\* a complete frame at the front of the buffer is always decoded, and when all
\* frames of a well-behaved client are decoded the buffer is empty.
C3_ConsumedAndPipelining ==
    /\ last.k # "Panic"
    /\ \E r \in {parse_resp_with_remaining(buf)}, d \in {decode_bytes_mut(buf)} :
          /\ r.k # "Panic"
          /\ r.k = "Ok" =>
                /\ d.consumed <= Len(buf)
                /\ Take(buf, d.consumed) \o r.remaining = buf
                /\ parse_resp_with_remaining(Take(buf, d.consumed)) =
                      [k |-> "Ok", frame |-> r.frame, remaining |-> <<>>]
          /\ (status = "open" /\ Len(decoded) < Len(sent)
                /\ Len(buf) >= Len(WireOf(sent[Len(decoded) + 1]))) =>
                (r.k = "Ok" /\ r.frame = sent[Len(decoded) + 1])
    /\ \A i \in 1..Min(Len(decoded), Len(sent)) : decoded[i].frame = sent[i]
    /\ last.k = "Ok" => (decoded # <<>> /\ last.frame = decoded[Len(decoded)].frame
                            /\ last.remaining = buf)
    /\ (junk = <<>> /\ sent # <<>>) =>
          /\ Len(decoded) <= Len(sent)
          /\ status = "open"
          /\ (Len(decoded) = Len(sent) /\ wire = <<>>) => buf = <<>>

\* The first of two pipelined frames was just decoded with all of the second
\* already in the buffer: the remainder is the second frame's encoding.
C3_Witness ==
    /\ Len(sent) = 2
    /\ junk = <<>>
    /\ Len(decoded) = 1
    /\ last.k = "Ok"
    /\ last.remaining = WireOf(sent[2])
    /\ buf = last.remaining

----------------------------------------------------------------------------
(* Properties of the parser (SpecParse)                                    *)

Parsed == result # NotParsed

\* A non-empty Array with a Simple String or Bulk String first.
WellHeaded == frame.t = "Array" /\ frame.a # <<>> /\ IsStringLike(frame.a[1])

\* The bytes b spell the upper-case ASCII name in some letter case.
SpelledAs(b, name) ==
    /\ Len(b) = Len(name)
    /\ \A i \in DOMAIN b : b[i] = name[i] \/ b[i] = name[i] + 32

Names(name) == WellHeaded /\ SpelledAs(frame.a[1].b, name)

\* C4: an Array naming GET, DEL or EXISTS with an element count other than 2,
\* or SET with a count other than 3, is Invalid, whatever its other elements.
C4_FixedArity ==
    Parsed =>
        /\ ((Names(NameGET) \/ Names(NameDEL) \/ Names(NameEXISTS)) /\ Len(frame.a) # 2)
              => result.k = "Invalid"
        /\ (Names(NameSET) /\ Len(frame.a) # 3) => result.k = "Invalid"

\* GET with two string arguments was rejected.
C4_Witness ==
    /\ Parsed
    /\ Names(NameGET)
    /\ Len(frame.a) = 3
    /\ IsStringLike(frame.a[2])
    /\ IsStringLike(frame.a[3])
    /\ result = PInvalid("GET requires exactly 1 argument")

\* C5 as stated: COMMAND and QUIT are accepted only with 1 element, PING and
\* INFO only with 1 or 2; any other count is Invalid.
C5_OptionalArityRejected ==
    Parsed =>
        /\ ((Names(NameCOMMAND) \/ Names(NameQUIT)) /\ Len(frame.a) # 1)
              => result.k = "Invalid"
        /\ ((Names(NamePING) \/ Names(NameINFO)) /\ Len(frame.a) \notin {1, 2})
              => result.k = "Invalid"

\* The text of the first argument.
Arg1Text == FromUtf8Lossy(frame.a[2].b)

\* C5 amended: COMMAND and QUIT yield their Command for every element count;
\* PING and INFO with 1 element yield the absent field, and with 2 or more
\* elements yield the text of the first argument when it is string-like and
\* Invalid when it is not; elements after the first argument are ignored and
\* no element count is rejected.
C5_OptionalArityIgnored ==
    Parsed =>
        /\ Names(NameCOMMAND) => result = POk(Command)
        /\ Names(NameQUIT) => result = POk(Quit)
        /\ (Names(NamePING) /\ Len(frame.a) = 1) => result = POk(PingNone)
        /\ (Names(NameINFO) /\ Len(frame.a) = 1) => result = POk(InfoNone)
        /\ (Names(NamePING) /\ Len(frame.a) >= 2) =>
              IF IsStringLike(frame.a[2]) THEN result = POk(PingSome(Arg1Text))
              ELSE result.k = "Invalid"
        /\ (Names(NameINFO) /\ Len(frame.a) >= 2) =>
              IF IsStringLike(frame.a[2]) THEN result = POk(InfoSome(Arg1Text))
              ELSE result.k = "Invalid"

\* PING with three arguments was accepted.
C5_Witness ==
    /\ Parsed
    /\ Names(NamePING)
    /\ Len(frame.a) = 4
    /\ result.k = "Ok"
    /\ result.cmd.c = "Ping"

HasNullArgument == \E i \in 2..Len(frame.a) : frame.a[i] = Null

\* C6 as stated: an Array with a string-like head and a Null in any argument
\* position is Invalid.
C6_NullAlwaysRejected ==
    (Parsed /\ WellHeaded /\ HasNullArgument) => result.k = "Invalid"

\* C6 amended: an Array naming GET, SET, DEL or EXISTS with a Null in any
\* argument position is Invalid, and so is one naming PING or INFO with a Null
\* as first argument; a Null handed to text extraction (a key, a message, a
\* section) or to byte extraction (SET's value) is reported as such.
C6_ExtractedNullRejected ==
    Parsed =>
        /\ ((Names(NameGET) \/ Names(NameSET) \/ Names(NameDEL) \/ Names(NameEXISTS))
                /\ HasNullArgument) => result.k = "Invalid"
        /\ ((Names(NamePING) \/ Names(NameINFO)) /\ Len(frame.a) >= 2 /\ frame.a[2] = Null)
              => result = PInvalid("Cannot use null as string argument")
        /\ ((Names(NameGET) \/ Names(NameDEL) \/ Names(NameEXISTS))
                /\ Len(frame.a) = 2 /\ frame.a[2] = Null)
              => result = PInvalid("Cannot use null as string argument")
        /\ (Names(NameSET) /\ Len(frame.a) = 3 /\ frame.a[2] = Null)
              => result = PInvalid("Cannot use null as string argument")
        /\ (Names(NameSET) /\ Len(frame.a) = 3 /\ IsStringLike(frame.a[2])
                /\ frame.a[3] = Null)
              => result = PInvalid("Cannot use null as byte argument")

\* SET with a string key and a Null value was rejected on the byte path.
C6_Witness ==
    /\ Parsed
    /\ Names(NameSET)
    /\ Len(frame.a) = 3
    /\ IsStringLike(frame.a[2])
    /\ frame.a[3] = Null
    /\ result.k = "Invalid"

\* The other letter case of an ASCII letter; any other byte is left alone.
FlipCase(b) ==
    IF b >= 65 /\ b <= 90 THEN b + 32
    ELSE IF b >= 97 /\ b <= 122 THEN b - 32
    ELSE b

\* Every byte string that differs from s only in the case of its letters.
RECURSIVE CaseVariants(_)
CaseVariants(s) ==
    IF s = <<>> THEN {<<>>}
    ELSE {<<b>> \o v : b \in {Head(s), FlipCase(Head(s))}, v \in CaseVariants(Tail(s))}

\* C7: an Array that differs from the parsed one only in the letter case of
\* its first element parses to the same result.
C7_CaseInsensitive ==
    (Parsed /\ WellHeaded) =>
        \A h \in CaseVariants(frame.a[1].b) :
            parse_command([frame EXCEPT !.a[1].b = h]) = result

\* "GeT" with a key was parsed to Get.
C7_Witness ==
    /\ Parsed
    /\ WellHeaded
    /\ frame.a[1] = BulkString(<<71, 101, 84>>)
    /\ result.k = "Ok"
    /\ result.cmd.c = "Get"

\* The upper-cased text of the first element.
HeadText == ToUppercase(FromUtf8Lossy(frame.a[1].b))

\* C8: a non-empty Array whose string-like first element upper-cases to none
\* of the eight names parses to Unknown with the upper-cased name, whatever
\* follows it.
C8_UnknownNotError ==
    (Parsed /\ WellHeaded /\ HeadText \notin KnownNames) =>
        /\ result = POk(Unknown(HeadText))
        /\ SpelledAs(frame.a[1].b, <<70, 79, 79>>) => result.cmd.s = <<70, 79, 79>>

\* "foo" followed by a Null, an Integer and an Array was parsed to Unknown(FOO).
C8_Witness ==
    /\ Parsed
    /\ frame = Array(<<BulkString(<<102, 111, 111>>), Null, Integer(7), Array(<<>>)>>)
    /\ result = POk(Unknown(<<70, 79, 79>>))

\* C9: a value that is not an Array, the empty Array and an Array whose first
\* element is not string-like are Invalid; an Ok result comes only from a
\* non-empty Array with a string-like first element.
C9_CommandOnlyFromArray ==
    Parsed =>
        /\ frame.t # "Array" => result.k = "Invalid"
        /\ frame = Array(<<>>) => result.k = "Invalid"
        /\ (frame.t = "Array" /\ frame.a # <<>> /\ ~IsStringLike(frame.a[1]))
              => result.k = "Invalid"
        /\ result.k = "Ok" => WellHeaded

\* A top-level Bulk String GET was rejected.
C9_Witness ==
    /\ Parsed
    /\ frame = BulkString(NameGET)
    /\ result = PInvalid("Commands must be arrays")

====
